---- MODULE Spec2Model ----
(***************************************************************************)
(* Model of datastore/mutation.go: the Mutation value object, its four     *)
(* constructors, WithTransforms with the derived property mask, and the    *)
(* batch builder mutationProtos.                                           *)
(*                                                                         *)
(* Two specifications are given.  Spec follows one *Mutation through a     *)
(* constructor call and any sequence of WithTransforms calls.  SpecBatch   *)
(* assembles a slice of mutations with the same constructors and           *)
(* WithTransforms and hands it to mutationProtos.                          *)
(***************************************************************************)
EXTENDS Integers, Sequences, FiniteSets, TLC

VARIABLES
    m,      \* the *Mutation the caller holds (Spec)
    hist,   \* history of m: the constructor that built it and its inputs,
            \* and the arguments of the WithTransforms calls that succeeded
    call,   \* the last call made on m: name, arguments, and for a method
            \* call the receiver as it was before the call
    muts,   \* the []*Mutation being assembled (SpecBatch)
    calls,  \* number of WithTransforms calls made on elements of muts
    out     \* what the last mutationProtos(muts) call returned

vars == <<m, hist, call, muts, calls, out>>

----------------------------------------------------------------------------
(* Bounds *)

MaxTransforms == 3      \* longest PropertyTransforms list explored
MaxArgs == 2            \* longest variadic argument list of WithTransforms
MaxBatch == 3           \* longest slice handed to mutationProtos
MaxBatchCalls == 1      \* WithTransforms calls made while assembling a slice

----------------------------------------------------------------------------
(* Keys.  A *Key is named by a string; "nil" is the nil pointer.  K and K2  *)
(* are two distinct Key values with the same canonical string.              *)

NilKey == "nil"

Keys == {"K", "K2", "L", "Inc", "Bad", "BadInc"}

valid(k) == k \in {"K", "K2", "L", "Inc"}

Incomplete(k) == k \in {"Inc", "BadInc"}

stringInternal(k) == IF k = "K2" THEN "K" ELSE k

keyToProto(k) == stringInternal(k)

----------------------------------------------------------------------------
(* Errors.  nil is NoErr; every other error is a kind, and for the          *)
(* formatted ones the operation and the argument printed in the message.    *)

NoErr == [kind |-> "nil", op |-> "", arg |-> ""]

ErrInvalidKey == [kind |-> "InvalidKey", op |-> "", arg |-> ""]

ErrIncompleteUpdate(k) == [kind |-> "IncompleteKey", op |-> "update", arg |-> k]

ErrIncompleteDelete(k) == [kind |-> "IncompleteKey", op |-> "delete", arg |-> k]

ErrUninitializedMutation == [kind |-> "UninitializedMutation", op |-> "", arg |-> ""]

ErrTransformOnDelete == [kind |-> "TransformOnDelete", op |-> "", arg |-> ""]

ErrUninitializedTransform == [kind |-> "UninitializedTransform", op |-> "", arg |-> ""]

ErrEncoder(src) == [kind |-> "Encoder", op |-> "", arg |-> src]

----------------------------------------------------------------------------
(* pb.Mutation and Mutation.  The Properties of a payload are the key set   *)
(* of its map; a Delete payload is the key proto.                           *)

NoMask == [present |-> FALSE, Paths |-> <<>>]

NoOperation == [kind |-> "none", Properties |-> {}, Key |-> ""]

NilMut ==
    [isNil |-> TRUE, Operation |-> NoOperation,
     PropertyTransforms |-> <<>>, PropertyMask |-> NoMask]

PbMutation(operation) ==
    [isNil |-> FALSE, Operation |-> operation,
     PropertyTransforms |-> <<>>, PropertyMask |-> NoMask]

ZeroMutation == [key |-> NilKey, mut |-> NilMut, err |-> NoErr]

ErrMutation(e) == [key |-> NilKey, mut |-> NilMut, err |-> e]

isDelete(mu) == mu.mut.Operation.kind = "Delete"

----------------------------------------------------------------------------
(* Source values and the entity encoder.                                    *)

Srcs == {"empty", "x", "xy", "bad"}

saveEntity(k, src) ==
    CASE src = "empty" -> [err |-> NoErr, p |-> {}]
      [] src = "x"     -> [err |-> NoErr, p |-> {"x"}]
      [] src = "xy"    -> [err |-> NoErr, p |-> {"x", "y"}]
      [] OTHER         -> [err |-> ErrEncoder(src), p |-> {}]

----------------------------------------------------------------------------
(* Property transforms.  A PropertyTransform wraps a pb pointer; NilPb is   *)
(* the uninitialized one.                                                   *)

NilPb == "nil"

TransformPbs == {"A", "B", "C"}

TransformProperty(t) ==
    CASE t = "A" -> "x"
      [] t = "B" -> "y"
      [] OTHER   -> "z"

----------------------------------------------------------------------------
(* Constructors.                                                            *)

\* NewInsert losing the encoder's error.
NewInsertDropsErr(k, src) ==
    IF ~valid(k) THEN ErrMutation(ErrInvalidKey)
    ELSE LET r == saveEntity(k, src) IN
         IF r.err # NoErr THEN ErrMutation(NoErr)
         ELSE [key |-> k,
               mut |-> PbMutation([kind |-> "Insert", Properties |-> r.p, Key |-> ""]),
               err |-> NoErr]

NewInsert(k, src) ==
    IF ~valid(k) THEN ErrMutation(ErrInvalidKey)
    ELSE LET r == saveEntity(k, src) IN
         IF r.err # NoErr THEN ErrMutation(r.err)
         ELSE [key |-> k,
               mut |-> PbMutation([kind |-> "Insert", Properties |-> r.p, Key |-> ""]),
               err |-> NoErr]

\* NewUpsert wrapping the payload in the Insert variant.
NewUpsertAsInsert(k, src) ==
    IF ~valid(k) THEN ErrMutation(ErrInvalidKey)
    ELSE LET r == saveEntity(k, src) IN
         IF r.err # NoErr THEN ErrMutation(r.err)
         ELSE [key |-> k,
               mut |-> PbMutation([kind |-> "Insert", Properties |-> r.p, Key |-> ""]),
               err |-> NoErr]

NewUpsert(k, src) ==
    IF ~valid(k) THEN ErrMutation(ErrInvalidKey)
    ELSE LET r == saveEntity(k, src) IN
         IF r.err # NoErr THEN ErrMutation(r.err)
         ELSE [key |-> k,
               mut |-> PbMutation([kind |-> "Upsert", Properties |-> r.p, Key |-> ""]),
               err |-> NoErr]

\* NewUpdate encoding the entity before it looks at the key.
NewUpdateEncodeFirst(k, src) ==
    LET r == saveEntity(k, src) IN
    IF r.err # NoErr THEN ErrMutation(r.err)
    ELSE IF ~valid(k) THEN ErrMutation(ErrInvalidKey)
    ELSE IF Incomplete(k) THEN ErrMutation(ErrIncompleteUpdate(k))
    ELSE [key |-> k,
          mut |-> PbMutation([kind |-> "Update", Properties |-> r.p, Key |-> ""]),
          err |-> NoErr]

NewUpdate(k, src) ==
    IF ~valid(k) THEN ErrMutation(ErrInvalidKey)
    ELSE IF Incomplete(k) THEN ErrMutation(ErrIncompleteUpdate(k))
    ELSE LET r == saveEntity(k, src) IN
         IF r.err # NoErr THEN ErrMutation(r.err)
         ELSE [key |-> k,
               mut |-> PbMutation([kind |-> "Update", Properties |-> r.p, Key |-> ""]),
               err |-> NoErr]

\* NewDelete leaving the key field of the Mutation unset.
NewDeleteNoKey(k) ==
    IF ~valid(k) THEN ErrMutation(ErrInvalidKey)
    ELSE IF Incomplete(k) THEN ErrMutation(ErrIncompleteDelete(k))
    ELSE [key |-> NilKey,
          mut |-> PbMutation([kind |-> "Delete", Properties |-> {}, Key |-> keyToProto(k)]),
          err |-> NoErr]

\* NewDelete testing completeness before validity.
NewDeleteIncompleteFirst(k) ==
    IF Incomplete(k) THEN ErrMutation(ErrIncompleteDelete(k))
    ELSE IF ~valid(k) THEN ErrMutation(ErrInvalidKey)
    ELSE [key |-> k,
          mut |-> PbMutation([kind |-> "Delete", Properties |-> {}, Key |-> keyToProto(k)]),
          err |-> NoErr]

NewDelete(k) ==
    IF ~valid(k) THEN ErrMutation(ErrInvalidKey)
    ELSE IF Incomplete(k) THEN ErrMutation(ErrIncompleteDelete(k))
    ELSE [key |-> k,
          mut |-> PbMutation([kind |-> "Delete", Properties |-> {}, Key |-> keyToProto(k)]),
          err |-> NoErr]

----------------------------------------------------------------------------
(* WithTransforms and the property mask.                                    *)

\* The orders in which a range over a Go map with key set S may visit it.
MapOrders(S) ==
    {q \in [1..Cardinality(S) -> S] : \A i, j \in 1..Cardinality(S) : i # j => q[i] # q[j]}

\* The mask also listing the property each transform targets.
setMaskWithTransformTargets(mut, paths) ==
    IF Len(mut.PropertyTransforms) = 0 THEN mut
    ELSE [mut EXCEPT !.PropertyMask =
             [present |-> TRUE,
              Paths |-> paths \o [i \in 1..Len(mut.PropertyTransforms) |->
                                     TransformProperty(mut.PropertyTransforms[i])]]]

\* The mask set without the early return for an empty transform list.
setMaskAlways(mut, paths) ==
    IF mut.Operation.kind \in {"Insert", "Update", "Upsert"}
    THEN [mut EXCEPT !.PropertyMask = [present |-> TRUE, Paths |-> paths]]
    ELSE [mut EXCEPT !.PropertyMask = [present |-> TRUE, Paths |-> <<>>]]

\* paths is the order in which the range over the payload's Properties map
\* visited its keys.
setMutationProtoPropertyMaskForTransforms(mut, paths) ==
    IF Len(mut.PropertyTransforms) = 0 THEN mut
    ELSE IF mut.Operation.kind \in {"Insert", "Update", "Upsert"}
         THEN [mut EXCEPT !.PropertyMask = [present |-> TRUE, Paths |-> paths]]
         ELSE [mut EXCEPT !.PropertyMask = [present |-> TRUE, Paths |-> <<>>]]

\* The loop putting each transform in front of the list.
RECURSIVE rangeTransformsPrepend(_, _, _)
rangeTransformsPrepend(mu, transforms, i) ==
    IF i > Len(transforms) THEN mu
    ELSE IF transforms[i] = NilPb
         THEN [mu EXCEPT !.err = ErrUninitializedTransform]
         ELSE rangeTransformsPrepend(
                  [mu EXCEPT !.mut.PropertyTransforms = <<transforms[i]>> \o @],
                  transforms, i + 1)

\* The loop passing over an uninitialized transform without an error.
RECURSIVE rangeTransformsSkipNil(_, _, _)
rangeTransformsSkipNil(mu, transforms, i) ==
    IF i > Len(transforms) THEN mu
    ELSE IF transforms[i] = NilPb
         THEN rangeTransformsSkipNil(mu, transforms, i + 1)
         ELSE rangeTransformsSkipNil(
                  [mu EXCEPT !.mut.PropertyTransforms = Append(@, transforms[i])],
                  transforms, i + 1)

\* The loop over the arguments, from argument i on.
RECURSIVE rangeTransforms(_, _, _)
rangeTransforms(mu, transforms, i) ==
    IF i > Len(transforms) THEN mu
    ELSE IF transforms[i] = NilPb
         THEN [mu EXCEPT !.err = ErrUninitializedTransform]
         ELSE rangeTransforms(
                  [mu EXCEPT !.mut.PropertyTransforms = Append(@, transforms[i])],
                  transforms, i + 1)

\* WithTransforms returning an uninitialized mutation as it found it.
WithTransformsNilNoop(mu, transforms, paths) ==
    IF mu.err # NoErr THEN mu
    ELSE IF mu.mut.isNil THEN mu
    ELSE IF isDelete(mu) THEN [mu EXCEPT !.err = ErrTransformOnDelete]
    ELSE LET looped == rangeTransforms(mu, transforms, 1) IN
         IF looped.err # NoErr THEN looped
         ELSE [looped EXCEPT
                  !.mut = setMutationProtoPropertyMaskForTransforms(@, paths)]

\* WithTransforms emptying the mutation when it refuses a Delete.
WithTransformsResetsDelete(mu, transforms, paths) ==
    IF mu.err # NoErr THEN mu
    ELSE IF mu.mut.isNil THEN [mu EXCEPT !.err = ErrUninitializedMutation]
    ELSE IF isDelete(mu) THEN ErrMutation(ErrTransformOnDelete)
    ELSE LET looped == rangeTransforms(mu, transforms, 1) IN
         IF looped.err # NoErr THEN looped
         ELSE [looped EXCEPT
                  !.mut = setMutationProtoPropertyMaskForTransforms(@, paths)]

\* WithTransforms without the early return on m.err.
WithTransformsNoErrCheck(mu, transforms, paths) ==
    IF mu.mut.isNil THEN [mu EXCEPT !.err = ErrUninitializedMutation]
    ELSE IF isDelete(mu) THEN [mu EXCEPT !.err = ErrTransformOnDelete]
    ELSE LET looped == rangeTransforms(mu, transforms, 1) IN
         IF looped.err # NoErr THEN looped
         ELSE [looped EXCEPT
                  !.mut = setMutationProtoPropertyMaskForTransforms(@, paths)]

\* WithTransforms without the isDelete test.
WithTransformsOnDelete(mu, transforms, paths) ==
    IF mu.err # NoErr THEN mu
    ELSE IF mu.mut.isNil THEN [mu EXCEPT !.err = ErrUninitializedMutation]
    ELSE LET looped == rangeTransforms(mu, transforms, 1) IN
         IF looped.err # NoErr THEN looped
         ELSE [looped EXCEPT
                  !.mut = setMutationProtoPropertyMaskForTransforms(@, paths)]

WithTransforms(mu, transforms, paths) ==
    IF mu.err # NoErr THEN mu
    ELSE IF mu.mut.isNil THEN [mu EXCEPT !.err = ErrUninitializedMutation]
    ELSE IF isDelete(mu) THEN [mu EXCEPT !.err = ErrTransformOnDelete]
    ELSE LET looped == rangeTransforms(mu, transforms, 1) IN
         IF looped.err # NoErr THEN looped
         ELSE [looped EXCEPT
                  !.mut = setMutationProtoPropertyMaskForTransforms(@, paths)]

----------------------------------------------------------------------------
(* mutationProtos.  A *pb.Mutation of the result is named by the index in   *)
(* muts of the Mutation that owns it.                                       *)

\* The first pass recording only the first error it meets.
collectErrorsFirstOnly(ms) ==
    IF \E i \in 1..Len(ms) : ms[i].err # NoErr
    THEN [isNil |-> FALSE,
          errs |-> [i \in 1..Len(ms) |->
                       IF \E j \in 1..(i - 1) : ms[j].err # NoErr
                       THEN NoErr ELSE ms[i].err]]
    ELSE [isNil |-> TRUE, errs |-> <<>>]

\* First pass: the MultiError, nil when no mutation carries an error.
collectErrors(ms) ==
    IF \E i \in 1..Len(ms) : ms[i].err # NoErr
    THEN [isNil |-> FALSE, errs |-> [i \in 1..Len(ms) |-> ms[i].err]]
    ELSE [isNil |-> TRUE, errs |-> <<>>]

\* The second pass never marking a deleted key as seen.
RECURSIVE collectProtosNoMark(_, _, _, _)
collectProtosNoMark(ms, i, protos, seen) ==
    IF i > Len(ms) THEN [protos |-> protos, panic |-> FALSE]
    ELSE IF ms[i].mut.isNil THEN [protos |-> <<>>, panic |-> TRUE]
    ELSE IF isDelete(ms[i])
         THEN IF ms[i].key = NilKey THEN [protos |-> <<>>, panic |-> TRUE]
              ELSE LET ks == stringInternal(ms[i].key) IN
                   IF ks \in seen
                   THEN collectProtosNoMark(ms, i + 1, protos, seen)
                   ELSE collectProtosNoMark(ms, i + 1, Append(protos, i), seen)
         ELSE collectProtosNoMark(ms, i + 1, Append(protos, i), seen)

\* The second pass removing duplicates of every mutation, not of deletions only.
RECURSIVE collectProtosDedupAll(_, _, _, _)
collectProtosDedupAll(ms, i, protos, seen) ==
    IF i > Len(ms) THEN [protos |-> protos, panic |-> FALSE]
    ELSE IF ms[i].mut.isNil \/ ms[i].key = NilKey THEN [protos |-> <<>>, panic |-> TRUE]
    ELSE LET ks == stringInternal(ms[i].key) IN
         IF ks \in seen
         THEN collectProtosDedupAll(ms, i + 1, protos, seen)
         ELSE collectProtosDedupAll(ms, i + 1, Append(protos, i), seen \cup {ks})

\* Second pass, from element i on: protos collected so far, canonical key
\* strings of the deletions seen so far.  Evaluating isDelete on a Mutation
\* whose mut is nil, or stringInternal on a nil key, dereferences a nil
\* pointer.
RECURSIVE collectProtos(_, _, _, _)
collectProtos(ms, i, protos, seen) ==
    IF i > Len(ms) THEN [protos |-> protos, panic |-> FALSE]
    ELSE IF ms[i].mut.isNil THEN [protos |-> <<>>, panic |-> TRUE]
    ELSE IF isDelete(ms[i])
         THEN IF ms[i].key = NilKey THEN [protos |-> <<>>, panic |-> TRUE]
              ELSE LET ks == stringInternal(ms[i].key) IN
                   IF ks \in seen
                   THEN collectProtos(ms, i + 1, protos, seen)
                   ELSE collectProtos(ms, i + 1, Append(protos, i), seen \cup {ks})
         ELSE collectProtos(ms, i + 1, Append(protos, i), seen)

\* mutationProtos returning the protos of the valid mutations next to the
\* MultiError.
mutationProtosPartial(ms) ==
    LET merr == collectErrors(ms) IN
    IF ~merr.isNil
    THEN [err |-> merr,
          protos |-> SelectSeq([i \in 1..Len(ms) |-> i], LAMBDA i : ms[i].err = NoErr),
          panic |-> FALSE]
    ELSE LET r == collectProtos(ms, 1, <<>>, {}) IN
         [err |-> merr, protos |-> r.protos, panic |-> r.panic]

mutationProtos(ms) ==
    LET merr == collectErrors(ms) IN
    IF ~merr.isNil
    THEN [err |-> merr, protos |-> <<>>, panic |-> FALSE]
    ELSE LET r == collectProtos(ms, 1, <<>>, {}) IN
         [err |-> merr, protos |-> r.protos, panic |-> r.panic]

----------------------------------------------------------------------------
(* One Mutation: a constructor call, then WithTransforms calls.             *)

ArgLists == UNION {[1..n -> TransformPbs \cup {NilPb}] : n \in 0..MaxArgs}

NoCall == [k |-> NilKey, src |-> "", transforms |-> <<>>, name |-> "none",
           pre |-> ZeroMutation]

NoOut == [err |-> [isNil |-> TRUE, errs |-> <<>>], protos |-> <<>>,
          panic |-> FALSE, called |-> FALSE]

Init ==
    /\ m = ZeroMutation
    /\ hist = [k |-> NilKey, src |-> "", origin |-> "zero", attached |-> <<>>]
    /\ call = NoCall
    /\ muts = <<>>
    /\ calls = 0
    /\ out = NoOut

Constructed(name, k, src, ret) ==
    /\ m' = ret
    /\ hist' = [k |-> k, src |-> src, origin |-> name, attached |-> <<>>]
    /\ call' = [k |-> k, src |-> src, transforms |-> <<>>, name |-> name,
                pre |-> ZeroMutation]
    /\ UNCHANGED <<muts, calls, out>>

CallNewInsert == \E k \in Keys, src \in Srcs : Constructed("NewInsert", k, src, NewInsert(k, src))

CallNewUpsert == \E k \in Keys, src \in Srcs : Constructed("NewUpsert", k, src, NewUpsert(k, src))

CallNewUpdate == \E k \in Keys, src \in Srcs : Constructed("NewUpdate", k, src, NewUpdate(k, src))

CallNewDelete == \E k \in Keys : Constructed("NewDelete", k, "", NewDelete(k))

CallWithTransforms ==
    \E transforms \in ArgLists, paths \in MapOrders(m.mut.Operation.Properties) :
        /\ Len(m.mut.PropertyTransforms) + Len(transforms) <= MaxTransforms
        /\ m' = WithTransforms(m, transforms, paths)
        /\ hist' = [hist EXCEPT !.attached =
                        IF m'.err = NoErr THEN @ \o transforms ELSE @]
        /\ call' = [k |-> NilKey, src |-> "", transforms |-> transforms,
                    name |-> "WithTransforms", pre |-> m]
        /\ UNCHANGED <<muts, calls, out>>

Next ==
    \/ CallNewInsert
    \/ CallNewUpsert
    \/ CallNewUpdate
    \/ CallNewDelete
    \/ CallWithTransforms

Spec == Init /\ [][Next]_vars

----------------------------------------------------------------------------
(* A batch: mutations are built and appended to the slice, some are         *)
(* decorated, and the slice is handed to mutationProtos.                    *)

BatchKeys == {"K", "K2", "L", "Bad"}

BatchSrcs == {"x", "bad"}

BatchArgLists == {<<>>, <<"A">>, <<NilPb>>}

Appended(ret) ==
    /\ ~out.called
    /\ Len(muts) < MaxBatch
    /\ muts' = Append(muts, ret)
    /\ UNCHANGED <<m, hist, call, calls, out>>

AppendNewInsert == \E k \in BatchKeys, src \in BatchSrcs : Appended(NewInsert(k, src))

AppendNewUpsert == \E k \in BatchKeys, src \in BatchSrcs : Appended(NewUpsert(k, src))

AppendNewUpdate == \E k \in BatchKeys, src \in BatchSrcs : Appended(NewUpdate(k, src))

AppendNewDelete == \E k \in BatchKeys : Appended(NewDelete(k))

Decorate ==
    \E i \in 1..Len(muts), transforms \in BatchArgLists :
      \E paths \in MapOrders(muts[i].mut.Operation.Properties) :
        /\ ~out.called
        /\ calls < MaxBatchCalls
        /\ muts' = [muts EXCEPT ![i] = WithTransforms(@, transforms, paths)]
        /\ calls' = calls + 1
        /\ UNCHANGED <<m, hist, call, out>>

\* Build removing the duplicate deletions from the caller's slice.
BuildDedupInPlace ==
    /\ LET r == mutationProtos(muts) IN
       /\ out' = [err |-> r.err, protos |-> r.protos, panic |-> r.panic,
                  called |-> TRUE]
       /\ muts' = IF r.err.isNil /\ ~r.panic
                  THEN [j \in 1..Len(r.protos) |-> muts[r.protos[j]]]
                  ELSE muts
    /\ UNCHANGED <<m, hist, call, calls>>

Build ==
    /\ LET r == mutationProtos(muts) IN
       out' = [err |-> r.err, protos |-> r.protos, panic |-> r.panic,
               called |-> TRUE]
    /\ UNCHANGED <<m, hist, call, muts, calls>>

NextBatch ==
    \/ AppendNewInsert
    \/ AppendNewUpsert
    \/ AppendNewUpdate
    \/ AppendNewDelete
    \/ Decorate
    \/ Build

SpecBatch == Init /\ [][NextBatch]_vars

----------------------------------------------------------------------------
(* Properties of the batch builder, under SpecBatch.  After Build the       *)
(* slice is no longer changed, so out is mutationProtos of muts.            *)

Min(S) == CHOOSE x \in S : \A y \in S : x <= y

ErrorFree == out.called /\ \A i \in 1..Len(muts) : muts[i].err = NoErr

\* The wire message behind proto j of the result.
Wire(j) == muts[out.protos[j]].mut

KeyStrings == {stringInternal(k) : k \in Keys}

\* Input positions holding a Delete on canonical key string K.
DeletesOn(K) ==
    {i \in 1..Len(muts) : isDelete(muts[i]) /\ stringInternal(muts[i].key) = K}

\* Output positions holding a delete message for canonical key string K.
EmittedDeletesOn(K) ==
    {j \in 1..Len(out.protos) :
        Wire(j).Operation.kind = "Delete" /\ Wire(j).Operation.Key = K}

\* C1: when at least one mutation of the batch carries an error,
\* mutationProtos returns no protos and a MultiError as long as the batch,
\* holding at i mutation i's error if it has one and nil if it is valid.
C1_PositionalErrors ==
    (out.called /\ \E i \in 1..Len(muts) : muts[i].err # NoErr) =>
        /\ ~out.panic
        /\ out.protos = <<>>
        /\ ~out.err.isNil
        /\ Len(out.err.errs) = Len(muts)
        /\ \A i \in 1..Len(muts) :
              /\ muts[i].err # NoErr => out.err.errs[i] = muts[i].err
              /\ muts[i].err = NoErr => out.err.errs[i] = NoErr

C1_Witness ==
    /\ out.called
    /\ Len(muts) = 3
    /\ muts[1].err = ErrInvalidKey
    /\ muts[2].err = NoErr
    /\ muts[3].err = ErrEncoder("bad")
    /\ out.err.errs = <<ErrInvalidKey, NoErr, ErrEncoder("bad")>>
    /\ out.protos = <<>>

\* C2: for an error-free batch and every canonical key string K, the result
\* holds exactly one delete message for K when the batch holds a Delete on
\* K and none otherwise, and the one it holds is the first Delete on K of
\* the input.
C2_DeleteDedup ==
    ErrorFree =>
        /\ ~out.panic
        /\ \A K \in KeyStrings :
              IF DeletesOn(K) = {}
              THEN EmittedDeletesOn(K) = {}
              ELSE /\ Cardinality(EmittedDeletesOn(K)) = 1
                   /\ \A j \in EmittedDeletesOn(K) : out.protos[j] = Min(DeletesOn(K))

C2_Witness ==
    /\ ErrorFree
    /\ Len(muts) = 3
    /\ \A i \in 1..3 : isDelete(muts[i])
    /\ muts[1].key = "K" /\ muts[2].key = "L" /\ muts[3].key = "K2"
    /\ out.protos = <<1, 2>>

\* C3: for an error-free batch every Insert, Update or Upsert is in the
\* result exactly once, whatever else targets its key, and the result lists
\* mutations of the input in input order.
C3_WritesAlwaysEmitted ==
    ErrorFree =>
        /\ ~out.panic
        /\ \A j \in 1..Len(out.protos) : out.protos[j] \in 1..Len(muts)
        /\ \A j1, j2 \in 1..Len(out.protos) : j1 < j2 => out.protos[j1] < out.protos[j2]
        /\ \A i \in 1..Len(muts) :
              ~isDelete(muts[i]) =>
                  Cardinality({j \in 1..Len(out.protos) : out.protos[j] = i}) = 1

C3_Witness ==
    /\ ErrorFree
    /\ Len(muts) = 3
    /\ \A i \in 1..3 : stringInternal(muts[i].key) = "K"
    /\ muts[1].mut.Operation.kind = "Upsert"
    /\ muts[2].mut.Operation.kind = "Delete"
    /\ muts[3].mut.Operation.kind = "Insert"
    /\ out.protos = <<1, 2, 3>>

----------------------------------------------------------------------------
(* Properties of one Mutation, under Spec.                                  *)

CtorNames == {"NewInsert", "NewUpsert", "NewUpdate", "NewDelete"}

WriteKinds == {"Insert", "Update", "Upsert"}

Variant(name) ==
    CASE name = "NewInsert" -> "Insert"
      [] name = "NewUpsert" -> "Upsert"
      [] name = "NewUpdate" -> "Update"
      [] OTHER              -> "Delete"

PathSet(mask) == {mask.Paths[i] : i \in 1..Len(mask.Paths)}

\* C4: while every WithTransforms call made on a constructed Insert, Update
\* or Upsert mutation has succeeded, its transform list is the
\* concatenation of the calls' argument lists, in call order and argument
\* order.
C4_TransformOrder ==
    (hist.origin \in CtorNames /\ m.err = NoErr /\ m.mut.Operation.kind \in WriteKinds) =>
        m.mut.PropertyTransforms = hist.attached

C4_Witness ==
    /\ hist.origin \in CtorNames
    /\ m.err = NoErr
    /\ call.name = "WithTransforms"
    /\ call.pre.mut.PropertyTransforms = <<"A", "B">>
    /\ call.transforms = <<"C">>
    /\ m.mut.PropertyTransforms = <<"A", "B", "C">>

\* C5: after a successful WithTransforms call that leaves the transform
\* list non-empty the property mask is present and lists exactly the
\* property names of the payload, each once; for an empty payload it is
\* present and empty.
C5_MaskIsPayload ==
    (call.name = "WithTransforms" /\ m.err = NoErr /\ Len(m.mut.PropertyTransforms) > 0) =>
        /\ m.mut.PropertyMask.present
        /\ PathSet(m.mut.PropertyMask) = m.mut.Operation.Properties
        /\ Len(m.mut.PropertyMask.Paths) = Cardinality(m.mut.Operation.Properties)
        /\ m.mut.Operation.Properties = {} => m.mut.PropertyMask.Paths = <<>>

C5_Witness ==
    /\ call.name = "WithTransforms"
    /\ m.err = NoErr
    /\ call.transforms = <<"C">>
    /\ ~call.pre.mut.PropertyMask.present
    /\ m.mut.Operation.Properties = {"x", "y"}
    /\ m.mut.PropertyMask.present
    /\ PathSet(m.mut.PropertyMask) = {"x", "y"}

\* C6: a WithTransforms call on a mutation whose error is set, whatever the
\* arguments, leaves the error, the operation, the transform list and the
\* property mask as they were.
C6_StickyError ==
    (call.name = "WithTransforms" /\ call.pre.err # NoErr) => m = call.pre

C6_Witness ==
    /\ call.name = "WithTransforms"
    /\ call.pre.err = ErrUninitializedTransform
    /\ call.transforms = <<"A">>
    /\ m.err = ErrUninitializedTransform

\* C7 as stated: a constructed mutation has either no operation and an
\* error, or an operation and no error.
C7_Dichotomy ==
    hist.origin \in CtorNames =>
        \/ m.mut.isNil /\ m.err # NoErr
        \/ ~m.mut.isNil /\ m.err = NoErr

\* C7 amended: a constructed mutation never lacks both operation and error;
\* as returned by its constructor it has exactly one of the two; it has
\* both only after a WithTransforms call failed on it, with the
\* transform-on-delete or uninitialized-transform error.
C7_NeverNeither ==
    hist.origin \in CtorNames =>
        /\ ~(m.mut.isNil /\ m.err = NoErr)
        /\ call.name \in CtorNames => (m.mut.isNil <=> m.err # NoErr)
        /\ (~m.mut.isNil /\ m.err # NoErr) =>
              m.err \in {ErrTransformOnDelete, ErrUninitializedTransform}

C7_Witness ==
    /\ hist.origin = "NewInsert"
    /\ call.name = "WithTransforms"
    /\ call.pre.err = NoErr
    /\ ~m.mut.isNil
    /\ m.err = ErrUninitializedTransform

\* C8: WithTransforms on a valid Delete mutation, with any arguments, sets
\* the transform-on-delete error and changes nothing else; a Delete
\* mutation never has a transform or a property mask.
C8_NoTransformOnDelete ==
    /\ (call.name = "WithTransforms" /\ call.pre.err = NoErr /\ isDelete(call.pre)) =>
          m = [call.pre EXCEPT !.err = ErrTransformOnDelete]
    /\ isDelete(m) => (m.mut.PropertyTransforms = <<>> /\ ~m.mut.PropertyMask.present)

C8_Witness ==
    /\ call.name = "WithTransforms"
    /\ call.pre.err = NoErr
    /\ isDelete(call.pre)
    /\ call.transforms = <<>>
    /\ m.err = ErrTransformOnDelete

\* C9 as stated: NewUpdate and NewDelete return the incomplete-key error for
\* every incomplete key and the invalid-key error for every invalid key.
C9_KeyErrors ==
    call.name \in {"NewUpdate", "NewDelete"} =>
        /\ Incomplete(call.k) => m.err.kind = "IncompleteKey"
        /\ ~valid(call.k) => m.err = ErrInvalidKey

\* C9 amended: NewUpdate and NewDelete return the invalid-key error for
\* every invalid key, incomplete or not, and the incomplete-key error for
\* every incomplete key that is valid.
C9_KeyErrorsValidFirst ==
    call.name \in {"NewUpdate", "NewDelete"} =>
        /\ (valid(call.k) /\ Incomplete(call.k)) =>
              (m.err.kind = "IncompleteKey" /\ m.err.arg = call.k /\ m.mut.isNil)
        /\ ~valid(call.k) => (m.err = ErrInvalidKey /\ m.mut.isNil)

C9_Witness ==
    /\ call.name = "NewDelete"
    /\ call.k = "Inc"
    /\ m.err = ErrIncompleteDelete("Inc")

\* C10 as stated: for every valid key and every source value NewInsert,
\* NewUpsert and NewUpdate return the matching variant with a nil error.
C10_ValidKeyBuilds ==
    (call.name \in {"NewInsert", "NewUpsert", "NewUpdate"} /\ valid(call.k)) =>
        /\ m.err = NoErr
        /\ m.mut.Operation.kind = Variant(call.name)
        /\ m.mut.Operation.Properties = saveEntity(call.k, call.src).p
        /\ m.key = call.k

\* C10 amended: for every valid key (complete, for NewUpdate) and every
\* source value the encoder accepts, NewInsert, NewUpsert and NewUpdate
\* return the matching variant, carrying the encoded properties and the
\* key, with a nil error.
C10_EncodableBuilds ==
    (/\ call.name \in {"NewInsert", "NewUpsert", "NewUpdate"}
     /\ valid(call.k)
     /\ call.name = "NewUpdate" => ~Incomplete(call.k)
     /\ saveEntity(call.k, call.src).err = NoErr) =>
        /\ m.err = NoErr
        /\ ~m.mut.isNil
        /\ m.mut.Operation.kind = Variant(call.name)
        /\ m.mut.Operation.Properties = saveEntity(call.k, call.src).p
        /\ m.key = call.k

C10_Witness ==
    /\ call.name = "NewUpsert"
    /\ call.k = "Inc"
    /\ call.src = "xy"
    /\ m.err = NoErr
    /\ m.mut.Operation.kind = "Upsert"
    /\ m.mut.Operation.Properties = {"x", "y"}


----------------------------------------------------------------------------
(* Further properties of the batch builder, under SpecBatch.                *)

\* C11: mutationProtos returns a non-nil error exactly when some mutation
\* of the batch carries an error, and returns protos only when every
\* mutation is valid, never together with an error.
C11_AllOrNothing ==
    out.called =>
        /\ ~out.err.isNil <=> \E i \in 1..Len(muts) : muts[i].err # NoErr
        /\ out.protos # <<>> =>
              (out.err.isNil /\ \A i \in 1..Len(muts) : muts[i].err = NoErr)
        /\ (out.err.isNil /\ ~out.panic /\ muts # <<>>) => out.protos # <<>>

C11_Witness ==
    /\ out.called
    /\ Len(muts) = 3
    /\ muts[1].err = NoErr /\ muts[1].mut.Operation.kind = "Upsert"
    /\ muts[2].err = NoErr /\ muts[2].mut.Operation.kind = "Delete"
    /\ muts[3].err = ErrTransformOnDelete
    /\ ~out.err.isNil
    /\ out.protos = <<>>


\* C13: every wire message of the result has a property mask exactly when
\* its transform list is non-empty; when no WithTransforms call attached a
\* transform, every message has neither mask nor transforms.
C13_MaskIffTransforms ==
    ErrorFree =>
        /\ \A j \in 1..Len(out.protos) :
              Wire(j).PropertyMask.present <=> Len(Wire(j).PropertyTransforms) > 0
        /\ calls = 0 =>
              \A j \in 1..Len(out.protos) :
                  ~Wire(j).PropertyMask.present /\ Wire(j).PropertyTransforms = <<>>

C13_Witness ==
    /\ ErrorFree
    /\ calls = 1
    /\ out.protos = <<1, 2>>
    /\ Wire(1).PropertyTransforms = <<"A">>
    /\ Wire(1).PropertyMask = [present |-> TRUE, Paths |-> <<"x">>]
    /\ Wire(2).Operation.kind \in {"Insert", "Update", "Upsert"}
    /\ Wire(2).PropertyTransforms = <<>>
    /\ ~Wire(2).PropertyMask.present

\* What mutationProtos returns for the slice as it is now.
Rebuilt ==
    LET r == mutationProtos(muts) IN
    [err |-> r.err, protos |-> r.protos, panic |-> r.panic, called |-> TRUE]

\* C17: a mutationProtos call, successful or failing, leaves every mutation
\* of its input as it was, and building the batch again returns what the
\* first build returned.
C17_BuilderReadOnly ==
    /\ [][out' # out => muts' = muts]_vars
    /\ [](out.called => out = Rebuilt)

C17_Witness ==
    /\ ErrorFree
    /\ Len(muts) = 3
    /\ muts[1].mut.PropertyTransforms = <<"A">>
    /\ isDelete(muts[2]) /\ muts[2].key = "L"
    /\ isDelete(muts[3]) /\ muts[3].key = "L"
    /\ out.protos = <<1, 2>>
    /\ out = Rebuilt

\* C19: in a batch of mutations built by the constructors and decorated by
\* WithTransforms, every mutation without an operation carries an error and
\* every Delete has its key, so the second pass of mutationProtos, reached
\* only when no mutation carries an error, never evaluates isDelete on a nil
\* operation nor the string of a nil key.
C19_EmitPassSafe ==
    /\ \A i \in 1..Len(muts) :
          /\ muts[i].mut.isNil => muts[i].err # NoErr
          /\ isDelete(muts[i]) => muts[i].key # NilKey
    /\ out.called => ~out.panic

C19_Witness ==
    /\ out.called
    /\ Len(muts) = 3
    /\ muts[1].mut.isNil /\ muts[1].err = ErrEncoder("bad")
    /\ isDelete(muts[2]) /\ muts[2].err = NoErr /\ muts[2].key = "K2"
    /\ muts[3].mut.Operation.kind = "Update" /\ muts[3].err = ErrUninitializedTransform
    /\ ~out.panic
    /\ ~out.err.isNil

----------------------------------------------------------------------------
(* Further properties of one Mutation, under Spec.                          *)

\* The receiver of the last call was a valid Insert, Update or Upsert.
ValidWriteBefore ==
    /\ call.name = "WithTransforms"
    /\ call.pre.err = NoErr
    /\ ~call.pre.mut.isNil
    /\ call.pre.mut.Operation.kind \in WriteKinds

HasUninitialized(transforms) == \E i \in 1..Len(transforms) : transforms[i] = NilPb

\* C12: a WithTransforms call on a valid Insert, Update or Upsert mutation
\* whose arguments hold an uninitialized PropertyTransform, at any
\* position, leaves the mutation carrying the uninitialized-transform
\* error.
C12_UninitializedTransformFails ==
    (ValidWriteBefore /\ HasUninitialized(call.transforms)) =>
        m.err = ErrUninitializedTransform

C12_Witness ==
    /\ ValidWriteBefore
    /\ call.transforms = <<"A", NilPb>>
    /\ m.err = ErrUninitializedTransform


\* The error the key alone earns from constructor name, nil when the key
\* passes its validation.
KeyError(name, k) ==
    IF ~valid(k) THEN ErrInvalidKey
    ELSE IF name = "NewUpdate" /\ Incomplete(k) THEN ErrIncompleteUpdate(k)
    ELSE IF name = "NewDelete" /\ Incomplete(k) THEN ErrIncompleteDelete(k)
    ELSE NoErr

\* C14: a constructor given a key that fails validation returns a mutation
\* carrying the key error and nothing else (no operation, no key), whatever
\* the source value; the encoder's error is returned, as the encoder gave
\* it and again with no operation and no key, only when the key passed.
C14_KeyCheckedFirst ==
    call.name \in CtorNames =>
        /\ KeyError(call.name, call.k) # NoErr =>
              m = ErrMutation(KeyError(call.name, call.k))
        /\ (/\ KeyError(call.name, call.k) = NoErr
            /\ call.name # "NewDelete"
            /\ saveEntity(call.k, call.src).err # NoErr) =>
              m = ErrMutation(saveEntity(call.k, call.src).err)
        /\ m.err.kind = "Encoder" => KeyError(call.name, call.k) = NoErr

C14_Witness ==
    /\ call.name = "NewUpdate"
    /\ call.k = "BadInc"
    /\ call.src = "bad"
    /\ m = ErrMutation(ErrInvalidKey)


\* C15: a WithTransforms call that fails on an uninitialized transform
\* appends none of its transforms: the transform list and the property
\* mask are after the call what they were before it.
C15_NoPartialAppend ==
    (ValidWriteBefore /\ HasUninitialized(call.transforms)) =>
        /\ m.mut.PropertyTransforms = call.pre.mut.PropertyTransforms
        /\ m.mut.PropertyMask = call.pre.mut.PropertyMask


\* The receiver of the last call was an uninitialized mutation: no
\* operation, no error.
UninitializedBefore ==
    /\ call.name = "WithTransforms"
    /\ call.pre.mut.isNil
    /\ call.pre.err = NoErr

\* C16 as stated: WithTransforms on an uninitialized mutation changes
\* neither its error nor any other field.
C16_UninitializedNoop == UninitializedBefore => m = call.pre

\* C16 amended: WithTransforms on an uninitialized mutation, with any
\* arguments, sets the uninitialized-mutation error and changes no other
\* field.
C16_UninitializedSetsError ==
    UninitializedBefore => m = [call.pre EXCEPT !.err = ErrUninitializedMutation]

C16_Witness ==
    /\ UninitializedBefore
    /\ hist.origin = "zero"
    /\ call.transforms = <<"A">>
    /\ m = [ZeroMutation EXCEPT !.err = ErrUninitializedMutation]


\* What the constructor call recorded in hist returned.
CtorResult ==
    CASE hist.origin = "NewInsert" -> NewInsert(hist.k, hist.src)
      [] hist.origin = "NewUpsert" -> NewUpsert(hist.k, hist.src)
      [] hist.origin = "NewUpdate" -> NewUpdate(hist.k, hist.src)
      [] hist.origin = "NewDelete" -> NewDelete(hist.k)
      [] OTHER                     -> ZeroMutation

\* The key, the presence of an operation, its variant and its payload.
Written(mu) == <<mu.key, mu.mut.isNil, mu.mut.Operation>>

\* C18: no WithTransforms call, successful or failing, changes the key, the
\* operation variant or the payload of a mutation: after any sequence of
\* calls they are what the constructor produced.
C18_WrittenUntouched ==
    /\ call.name = "WithTransforms" => Written(m) = Written(call.pre)
    /\ Written(m) = Written(CtorResult)

C18_Witness ==
    /\ call.name = "WithTransforms"
    /\ hist.origin = "NewUpdate"
    /\ call.transforms = <<"B", NilPb>>
    /\ m.err = ErrUninitializedTransform
    /\ m.mut.PropertyTransforms = <<"A", "B">>
    /\ m.mut.PropertyMask.present
    /\ Written(m) = <<"K", FALSE, [kind |-> "Update", Properties |-> {"x", "y"}, Key |-> ""]>>

====
